---- MODULE Spec2Model ----
(***************************************************************************)
(* A model of the data-science pipeline example                            *)
(* (07-EXAMPLES/data-science-pipeline.py) and of the API the test-suite    *)
(* example (07-EXAMPLES/fastapi-app.py) exercises.                         *)
(*                                                                         *)
(* A pandas DataFrame is abstracted to its row count and, per column, the  *)
(* column's dtype and its number of missing cells: every decision the      *)
(* modelled code takes reads only these.  Imputation fills the missing     *)
(* cells of a column and leaves its observed cells alone, so a column's    *)
(* values change exactly when its number of missing cells changes.         *)
(***************************************************************************)
EXTENDS Integers, Sequences, FiniteSets, TLC

(***************************************************************************)
(* Bounds of the model.                                                    *)
(***************************************************************************)
\* Row count of the non-empty frames (the empty frame has 0 rows).
NumRows == 11
\* Largest number of missing cells in one column.
MaxMissing == 2
\* Calls of run_complete_pipeline and train_models on the pipeline.
MaxCalls == 2
\* Longest models_to_train list.
MaxModels == 2

\* Column names and dtypes the frames are built from.
Columns == {"a", "b"}
DTypes == {"object", "category", "float64", "float32", "int64"}

VARIABLES
    \* ---- one SmartMissingValueImputer instance
    strategy,        \* self.strategy, set by __init__
    is_fitted_,      \* self.is_fitted_
    feature_names_,  \* self.feature_names_: None, or the recorded columns
    imputers_,       \* self.imputers_: column -> fitted/unfitted library imputer
    strategies_,     \* self.strategies_: column -> strategy name
    call,            \* the call whose result the caller holds: operation, argument,
                     \* outcome, returned frame (op "none": no call is pending)
    fit_completed,   \* history: some fit call on the instance has returned
    recorded,        \* history: columns of the latest fit that passed validation
    \* ---- DataConfig and one ModernDataLoader instance
    data_config,     \* the DataConfig the caller holds (none before one is built)
    loader,          \* the ModernDataLoader: config, _data, _polars_data
    loader_call,     \* the loader call whose result the caller holds
    load_completed,  \* history: some load_pandas call on the loader has returned
    \* ---- one DataSciencePipeline instance
    fields,          \* data_loader, imputer, feature_engineer, trainer: 0 for None,
                     \* else the number of the object assigned
    calls,           \* number of calls made on the pipeline; the objects a call
                     \* creates carry its number
    pc,              \* position in run_complete_pipeline ("idle": no run)
    run,             \* the run in progress: target column, columns in hand, fields
                     \* before the call, stages entered, frames handed over
    result,          \* what the latest run_complete_pipeline/train_models call gave
    \* ---- the API under test
    users,           \* registered users: email -> username, password
    tokens,          \* access tokens issued by login (the email they stand for)
    response         \* the response the client holds

imputerVars == <<strategy, is_fitted_, feature_names_, imputers_, strategies_,
                 call, fit_completed, recorded>>

loaderVars == <<data_config, loader, loader_call, load_completed>>

pipelineVars == <<fields, calls, pc, run, result>>

apiVars == <<users, tokens, response>>

vars == <<imputerVars, loaderVars, pipelineVars, apiVars>>

\* An Optional[List[str]] field: None, or the list's columns.
None == [none |-> TRUE, names |-> {}]
Some(S) == [none |-> FALSE, names |-> S]

(***************************************************************************)
(* Frames.                                                                 *)
(***************************************************************************)
\* Cells of one column of a frame with `rows` rows: a dtype and a count of missing
\* cells.  At least one cell of a non-empty column is observed, and an int64 column
\* holds no missing cell (NaN makes pandas store the column as float64).
ColumnData(rows) ==
    {d \in [dtype : DTypes, nmiss : 0..MaxMissing] :
        /\ d.nmiss = 0 \/ d.nmiss < rows
        /\ d.dtype = "int64" => d.nmiss = 0}

FramesWithRows(rows) ==
    UNION {{[kind |-> "DataFrame", rows |-> rows, cols |-> f] :
              f \in [S -> ColumnData(rows)]} : S \in SUBSET Columns}

\* The empty frame, and frames of NumRows - 1 and NumRows rows.
Frames == FramesWithRows(0) \cup FramesWithRows(NumRows - 1) \cup FramesWithRows(NumRows)

\* An argument that is not a pandas DataFrame (a list, an ndarray, ...).
NotAFrame == [kind |-> "other", rows |-> 0, cols |-> <<>>]

Inputs == Frames \cup {NotAFrame}

\* No call is pending.
NoCall == [op |-> "none", X |-> NotAFrame, outcome |-> "ok", out |-> NotAFrame]

ColumnsOf(X) == DOMAIN X.cols

\* X.select_dtypes(include=[np.number]).columns
IsNumeric(dtype) == dtype \in {"float64", "float32", "int64"}
NumericColumns(X) == {c \in ColumnsOf(X) : IsNumeric(X.cols[c].dtype)}

\* All orders in which a set of columns can appear in X.columns.
Orders(S) ==
    {s \in [1..Cardinality(S) -> S] : \A i, j \in 1..Cardinality(S) : i # j => s[i] # s[j]}

Put(f, k, v) == [x \in (DOMAIN f) \cup {k} |-> IF x = k THEN v ELSE f[x]]

(***************************************************************************)
(* TypeSafeFeatureTransformer                                              *)
(***************************************************************************)
\* A validation that accepts only a frame with exactly the recorded columns.
ValidateInput_ExactColumns(X, fitted, names) ==
    IF X.kind # "DataFrame" THEN "TypeError"
    ELSE IF fitted /\ ~names.none /\ names.names # ColumnsOf(X) THEN "MissingFeatures"
    ELSE "ok"

\* _validate_input: the exception it raises, or "ok".
ValidateInput(X, fitted, names) ==
    IF X.kind # "DataFrame" THEN "TypeError"
    ELSE IF fitted /\ ~names.none /\ (names.names \ ColumnsOf(X)) # {}
         THEN "MissingFeatures"
    ELSE "ok"

(***************************************************************************)
(* SmartMissingValueImputer                                                *)
(***************************************************************************)
\* The values of the constructor's `strategy` argument the model draws from.
Strategies == {"auto", "mean", "knn"}

\* missing_ratio == 0, with missing_ratio = X[column].isnull().mean(): the mean of
\* an empty column is NaN, which is not equal to 0.
MissingRatioIsZero(nmiss, rows) == rows > 0 /\ nmiss = 0

\* missing_ratio < 0.1 (false for the NaN ratio of an empty column).
MissingRatioBelowTenth(nmiss, rows) == rows > 0 /\ 10 * nmiss < rows

\* A choice that takes 'mean' for every low-ratio column that is not object/category.
ChooseStrategy_MeanForAnyDtype(configured, dtype, nmiss, rows) ==
    IF configured = "auto" THEN
        IF dtype \in {"object", "category"} THEN "most_frequent"
        ELSE IF MissingRatioBelowTenth(nmiss, rows) THEN "mean"
        ELSE "knn"
    ELSE configured

\* The strategy fit picks for a column it does not skip.
ChooseStrategy(configured, dtype, nmiss, rows) ==
    IF configured = "auto" THEN
        IF dtype \in {"object", "category"} THEN "most_frequent"
        ELSE IF MissingRatioBelowTenth(nmiss, rows) THEN
            (IF dtype \in {"float64", "int64"} THEN "mean" ELSE "most_frequent")
        ELSE "knn"
    ELSE configured

\* SimpleImputer(strategy=s).fit(X[[column]]) returns: scikit-learn rejects a frame
\* without rows and the mean of a non-numeric column.
SimpleImputerFits(s, X, column) ==
    /\ X.rows > 0
    /\ s = "mean" => IsNumeric(X.cols[column].dtype)

\* KNNImputer(...).fit(X[numeric_columns]) returns: scikit-learn rejects a frame
\* without rows or without columns.
KNNImputerFits(X) == X.rows > 0 /\ NumericColumns(X) # {}

\* The loop of fit over X.columns from position i on: the two dictionaries when it
\* ends, and whether a library fit raised (which ends the loop at that column).
RECURSIVE FitLoop(_, _, _, _, _, _)
FitLoop(configured, X, order, i, imps, strats) ==
    IF i > Len(order) THEN [imputers |-> imps, strategies |-> strats, raised |-> FALSE]
    ELSE LET column == order[i]
             d == X.cols[column]
         IN IF MissingRatioIsZero(d.nmiss, X.rows)
            THEN FitLoop(configured, X, order, i + 1, imps, strats)
            ELSE LET s == ChooseStrategy(configured, d.dtype, d.nmiss, X.rows)
                     fits == IF s = "knn" THEN KNNImputerFits(X)
                             ELSE SimpleImputerFits(s, X, column)
                     imp == [strategy |-> s, fitted |-> fits,
                             knn_columns |-> IF s = "knn" /\ fits
                                             THEN NumericColumns(X) ELSE {}]
                     strats2 == Put(strats, column, s)
                     imps2 == Put(imps, column, imp)
                 IN IF fits
                    THEN FitLoop(configured, X, order, i + 1, imps2, strats2)
                    ELSE [imputers |-> imps2, strategies |-> strats2, raised |-> TRUE]

\* SmartMissingValueImputer.fit(X) with X.columns in the given order.
Fit(X, order) ==
    /\ call.op = "none"
    /\ LET v == ValidateInput(X, is_fitted_, feature_names_)
       IN IF v # "ok"
          THEN /\ call' = [op |-> "fit", X |-> X, outcome |-> v, out |-> NotAFrame]
               /\ UNCHANGED <<strategy, is_fitted_, feature_names_, imputers_,
                              strategies_, fit_completed, recorded>>
          ELSE LET r == FitLoop(strategy, X, order, 1, imputers_, strategies_)
               IN /\ feature_names_' = Some(ColumnsOf(X))
                  /\ is_fitted_' = TRUE
                  /\ recorded' = Some(ColumnsOf(X))
                  /\ imputers_' = r.imputers
                  /\ strategies_' = r.strategies
                  /\ fit_completed' = (fit_completed \/ ~r.raised)
                  /\ call' = [op |-> "fit", X |-> X,
                              outcome |-> IF r.raised THEN "ImputerFitError" ELSE "ok",
                              out |-> NotAFrame]
                  /\ UNCHANGED strategy
    /\ UNCHANGED <<loaderVars, pipelineVars, apiVars>>

\* The columns the imputer stored for `column` overwrites in _transform_impl.
Overwritten(X, column) ==
    IF strategies_[column] = "knn" THEN NumericColumns(X) ELSE {column}

\* imputer.transform(...) of the imputer stored for `column` raises: it was never
\* fitted, the frame has no rows, the KNN imputer sees other features than it was
\* fitted on, or a mean imputer is given a non-numeric column.
ImputerTransformRaises(X, column) ==
    \/ ~imputers_[column].fitted
    \/ X.rows = 0
    \/ /\ strategies_[column] = "knn"
       /\ NumericColumns(X) # imputers_[column].knn_columns
    \/ /\ strategies_[column] = "mean"
       /\ ~IsNumeric(X.cols[column].dtype)

\* The imputers _transform_impl applies: those whose column is in the frame.
Applied(X) == {c \in DOMAIN imputers_ : c \in ColumnsOf(X)}

\* The frame _transform_impl returns when no library call raises.
TransformImpl(X) ==
    LET filled == UNION {Overwritten(X, c) : c \in Applied(X)}
    IN [X EXCEPT !.cols = [c \in ColumnsOf(X) |->
                             IF c \in filled THEN [X.cols[c] EXCEPT !.nmiss = 0]
                             ELSE X.cols[c]]]

\* TypeSafeFeatureTransformer.transform(X) on the imputer.
TransformOutcome(X) ==
    IF ~is_fitted_ THEN "NotFitted"
    ELSE LET v == ValidateInput(X, is_fitted_, feature_names_)
         IN IF v # "ok" THEN v
            ELSE IF \E c \in Applied(X) : ImputerTransformRaises(X, c)
                 THEN "ImputerTransformError"
                 ELSE "ok"

Transform(X) ==
    /\ call.op = "none"
    /\ LET o == TransformOutcome(X)
       IN call' = [op |-> "transform", X |-> X, outcome |-> o,
                   out |-> IF o = "ok" THEN TransformImpl(X) ELSE NotAFrame]
    /\ UNCHANGED <<strategy, is_fitted_, feature_names_, imputers_, strategies_,
                   fit_completed, recorded>>
    /\ UNCHANGED <<loaderVars, pipelineVars, apiVars>>

\* The caller takes the result of its call (the returned value or the exception) and
\* goes on; the instance is ready for the next call.
Resume ==
    /\ call.op # "none"
    /\ call' = NoCall
    /\ UNCHANGED <<strategy, is_fitted_, feature_names_, imputers_, strategies_,
                   fit_completed, recorded>>
    /\ UNCHANGED <<loaderVars, pipelineVars, apiVars>>

(***************************************************************************)
(* DataConfig and ModernDataLoader                                         *)
(***************************************************************************)
\* The file_type arguments the model draws from.
FileTypeInputs == {"csv", "json", "parquet", "excel", "CSV", "Csv", "xml", "txt", ""}

\* A validator that compares file types without regard to case.
validate_file_type_AnyCase(v) ==
    IF v \notin {"csv", "json", "parquet", "excel", "CSV", "Csv"}
    THEN [raises |-> TRUE, value |-> v]
    ELSE [raises |-> FALSE, value |-> v]

\* DataConfig.validate_file_type: raises ValueError, or returns v.
validate_file_type(v) ==
    LET allowed_types == {"csv", "json", "parquet", "excel"}
    IN IF v \notin allowed_types
       THEN [raises |-> TRUE, value |-> v]
       ELSE [raises |-> FALSE, value |-> v]

\* DataConfig.validate_file_exists on a path that exists or not.
validate_file_exists(file_exists) == [raises |-> ~file_exists]

NoConfig == [none |-> TRUE, file_type |-> ""]
NoData == [kind |-> "None", rows |-> 0, cols |-> <<>>]
NoLoader == [none |-> TRUE, config |-> NoConfig, data |-> NoData, polars_data |-> "None"]
NoLoaderCall == [op |-> "none", outcome |-> "ok", file_type |-> "", errors |-> {},
                 report |-> [total_rows |-> 0, total_columns |-> 0, missing |-> 0],
                 read |-> NoData]

\* DataConfig(file_path=..., file_type=...): pydantic runs the validator of each
\* field and raises one ValidationError (a ValueError) naming the fields that failed.
DataConfigInit(file_exists, file_type) ==
    /\ loader_call.op = "none"
    /\ LET errors == (IF validate_file_exists(file_exists).raises THEN {"file_path"} ELSE {})
                     \cup (IF validate_file_type(file_type).raises THEN {"file_type"} ELSE {})
       IN /\ loader_call' = [NoLoaderCall EXCEPT !.op = "DataConfig",
                                !.outcome = IF errors = {} THEN "ok" ELSE "ValueError",
                                !.file_type = file_type, !.errors = errors]
          /\ data_config' = IF errors = {}
                            THEN [none |-> FALSE,
                                  file_type |-> validate_file_type(file_type).value]
                            ELSE data_config
    /\ UNCHANGED <<loader, load_completed>>
    /\ UNCHANGED <<imputerVars, pipelineVars, apiVars>>

\* ModernDataLoader(config) with the DataConfig the caller holds.
ModernDataLoaderInit ==
    /\ loader_call.op = "none"
    /\ ~data_config.none
    /\ loader' = [none |-> FALSE, config |-> data_config, data |-> NoData,
                  polars_data |-> "None"]
    /\ load_completed' = FALSE
    /\ loader_call' = [NoLoaderCall EXCEPT !.op = "ModernDataLoader"]
    /\ UNCHANGED data_config
    /\ UNCHANGED <<imputerVars, pipelineVars, apiVars>>

\* A 64-bit integer is written <<h, m, l>> for h * 2^48 + m * 2^24 + l with
\* 0 <= m, l < 2^24 and -2^15 <= h < 2^15, and compared limb by limb.
I64(n) == IF n >= 0 THEN <<0, n \div 16777216, n % 16777216>>
          ELSE <<-1, 16777216 + (n \div 16777216), n % 16777216>>

\* x < y on 64-bit integers.
Less(x, y) ==
    \/ x[1] < y[1]
    \/ x[1] = y[1] /\ x[2] < y[2]
    \/ x[1] = y[1] /\ x[2] = y[2] /\ x[3] < y[3]

\* np.iinfo(...).min and .max of the types _optimize_dtypes tests.
UInt8Max == <<0, 0, 255>>
UInt16Max == <<0, 0, 65535>>
UInt32Max == <<0, 255, 16777215>>
Int8Min == <<-1, 16777215, 16777088>>
Int8Max == <<0, 0, 127>>
Int16Min == <<-1, 16777215, 16744448>>
Int16Max == <<0, 0, 32767>>
Int32Min == <<-1, 16777088, 0>>
Int32Max == <<0, 127, 16777215>>

\* x <= y on 64-bit integers.
LessEq(x, y) == ~Less(y, x)

\* np.iinfo(dtype).min and .max of the integer types.
Int64Min == <<-32768, 0, 0>>
Int64Max == <<32767, 16777215, 16777215>>
IntTypeMin(dtype) ==
    CASE dtype = "int8" -> Int8Min
      [] dtype = "int16" -> Int16Min
      [] dtype = "int32" -> Int32Min
      [] dtype = "int64" -> Int64Min
      [] OTHER -> <<0, 0, 0>>
IntTypeMax(dtype) ==
    CASE dtype = "uint8" -> UInt8Max
      [] dtype = "uint16" -> UInt16Max
      [] dtype = "uint32" -> UInt32Max
      [] dtype = "int8" -> Int8Max
      [] dtype = "int16" -> Int16Max
      [] dtype = "int32" -> Int32Max
      [] OTHER -> Int64Max

\* Series.astype(dtype) on one int64 value: NumPy keeps the low bits of the value
\* and reads them in the target type (the value wraps around when it is outside
\* the type's range).
AsType(x, dtype) ==
    CASE dtype = "uint8" -> <<0, 0, x[3] % 256>>
      [] dtype = "uint16" -> <<0, 0, x[3] % 65536>>
      [] dtype = "uint32" -> <<0, x[2] % 256, x[3]>>
      [] dtype = "int8" ->
            (IF x[3] % 256 >= 128 THEN <<-1, 16777215, 16777216 - 256 + (x[3] % 256)>>
             ELSE <<0, 0, x[3] % 256>>)
      [] dtype = "int16" ->
            (IF x[3] % 65536 >= 32768
             THEN <<-1, 16777215, 16777216 - 65536 + (x[3] % 65536)>>
             ELSE <<0, 0, x[3] % 65536>>)
      [] dtype = "int32" ->
            (IF x[2] % 256 >= 128 THEN <<-1, 16777216 - 256 + (x[2] % 256), x[3]>>
             ELSE <<0, x[2] % 256, x[3]>>)
      [] OTHER -> x

\* As OptimizedIntDtype, but the signed branch tests the maximum only.
OptimizedIntDtype_MaxOnly(rows, col_min, col_max) ==
    IF rows = 0 THEN "int64"
    ELSE IF ~Less(col_min, <<0, 0, 0>>) THEN
        IF Less(col_max, UInt8Max) THEN "uint8"
        ELSE IF Less(col_max, UInt16Max) THEN "uint16"
        ELSE IF Less(col_max, UInt32Max) THEN "uint32"
        ELSE "int64"
    ELSE
        IF Less(col_max, Int8Max) THEN "int8"
        ELSE IF Less(col_max, Int16Max) THEN "int16"
        ELSE IF Less(col_max, Int32Max) THEN "int32"
        ELSE "int64"

\* The dtype _optimize_dtypes gives an int64 column with the given minimum and
\* maximum (min and max of a column without rows are NaN: every test fails).
OptimizedIntDtype(rows, col_min, col_max) ==
    IF rows = 0 THEN "int64"
    ELSE IF ~Less(col_min, <<0, 0, 0>>) THEN
        IF Less(col_max, UInt8Max) THEN "uint8"
        ELSE IF Less(col_max, UInt16Max) THEN "uint16"
        ELSE IF Less(col_max, UInt32Max) THEN "uint32"
        ELSE "int64"
    ELSE
        IF Less(Int8Min, col_min) /\ Less(col_max, Int8Max) THEN "int8"
        ELSE IF Less(Int16Min, col_min) /\ Less(col_max, Int16Max) THEN "int16"
        ELSE IF Less(Int32Min, col_min) /\ Less(col_max, Int32Max) THEN "int32"
        ELSE "int64"

\* What a pandas reader hands back for a file: the frame (columns as the reader
\* types them: int64 with its minimum and maximum, float64, object) and, for
\* _optimize_dtypes, the float64 columns that downcast to float32 and the number of
\* distinct values of each object column.
IntRanges == {<<I64(0), I64(254)>>, <<I64(0), I64(255)>>, <<I64(-5), I64(126)>>,
              <<I64(-128), I64(127)>>}

RawColumn(rows) ==
    {d \in [dtype : {"int64", "float64", "object"}, nmiss : 0..1, range : IntRanges] :
        /\ d.nmiss = 0 \/ d.nmiss < rows
        /\ d.dtype = "int64" => d.nmiss = 0
        /\ (d.dtype # "int64" \/ rows = 0) => d.range = <<I64(0), I64(254)>>}

RawFrames(rows) ==
    UNION {{[kind |-> "DataFrame", rows |-> rows, cols |-> f] :
              f \in [S -> RawColumn(rows)]} : S \in SUBSET Columns}

ReadResults ==
    {[raises |-> TRUE, frame |-> NoData, downcast |-> {}, nunique |-> <<>>]}
    \cup UNION {{[raises |-> FALSE, frame |-> F, downcast |-> D, nunique |-> u] :
                   D \in SUBSET {c \in DOMAIN F.cols : F.cols[c].dtype = "float64"},
                   u \in [{c \in DOMAIN F.cols : F.cols[c].dtype = "object"} ->
                            {1, F.rows}]} :
                F \in RawFrames(0) \cup RawFrames(NumRows)}

\* _optimize_dtypes on the frame just read: the frame it leaves in self._data and
\* whether it raises.  The integer and the float loops run first; the object loop
\* divides by len(self._data), so it raises ZeroDivisionError at the first object
\* column of a frame without rows.
OptimizeDtypes(read) ==
    LET F == read.frame
        object_columns == {c \in DOMAIN F.cols : F.cols[c].dtype = "object"}
        raises == object_columns # {} /\ F.rows = 0
        dtype_after(c) ==
            LET d == F.cols[c]
            IN IF d.dtype = "int64" THEN OptimizedIntDtype(F.rows, d.range[1], d.range[2])
               ELSE IF d.dtype = "float64"
                    THEN (IF c \in read.downcast THEN "float32" ELSE "float64")
               ELSE IF d.dtype = "object"
                    THEN (IF ~raises /\ 2 * read.nunique[c] < F.rows THEN "category"
                          ELSE "object")
               ELSE d.dtype
        range_after(c) ==
            LET d == F.cols[c]
            IN IF d.dtype = "int64" /\ F.rows > 0
               THEN <<AsType(d.range[1], dtype_after(c)), AsType(d.range[2], dtype_after(c))>>
               ELSE d.range
    IN [raises |-> raises,
        frame |-> [F EXCEPT !.cols = [c \in DOMAIN F.cols |->
                                        [F.cols[c] EXCEPT !.dtype = dtype_after(c),
                                                          !.range = range_after(c)]]]]

\* load_pandas(): the reader of the configured file type raises, or its frame is
\* stored in self._data and then optimized in place.
LoadPandas(read) ==
    /\ loader_call.op = "none"
    /\ ~loader.none
    /\ IF loader.config.file_type \in {"csv", "parquet", "json", "excel"}
       THEN IF read.raises
            THEN /\ loader_call' = [NoLoaderCall EXCEPT !.op = "load_pandas",
                                                        !.outcome = "ReadError"]
                 /\ UNCHANGED <<loader, load_completed>>
            ELSE LET r == OptimizeDtypes(read)
                 IN /\ loader' = [loader EXCEPT !.data = r.frame]
                    /\ load_completed' = (load_completed \/ ~r.raises)
                    /\ loader_call' = [NoLoaderCall EXCEPT !.op = "load_pandas",
                                          !.outcome = IF r.raises THEN "ZeroDivisionError"
                                                      ELSE "ok",
                                          !.read = read.frame]
       ELSE /\ loader_call' = [NoLoaderCall EXCEPT !.op = "load_pandas"]
            /\ load_completed' = TRUE
            /\ UNCHANGED loader
    /\ UNCHANGED data_config
    /\ UNCHANGED <<imputerVars, pipelineVars, apiVars>>

\* load_polars(): only csv and parquet are read; self._data is never assigned.
LoadPolars(read_ok) ==
    /\ loader_call.op = "none"
    /\ ~loader.none
    /\ IF loader.config.file_type \in {"csv", "parquet"}
       THEN IF read_ok
            THEN /\ loader' = [loader EXCEPT !.polars_data = "DataFrame"]
                 /\ loader_call' = [NoLoaderCall EXCEPT !.op = "load_polars"]
            ELSE /\ loader_call' = [NoLoaderCall EXCEPT !.op = "load_polars",
                                                        !.outcome = "ReadError"]
                 /\ UNCHANGED loader
       ELSE /\ loader_call' = [NoLoaderCall EXCEPT !.op = "load_polars"]
            /\ UNCHANGED loader
    /\ UNCHANGED <<data_config, load_completed>>
    /\ UNCHANGED <<imputerVars, pipelineVars, apiVars>>

RECURSIVE SumMissing(_, _)
SumMissing(F, S) ==
    IF S = {} THEN 0
    ELSE LET c == CHOOSE x \in S : TRUE
         IN F.cols[c].nmiss + SumMissing(F, S \ {c})

\* generate_quality_report(): ValueError while self._data is None; the missing ratio
\* divides by len(self._data) * len(self._data.columns), two Python ints.
GenerateQualityReport ==
    /\ loader_call.op = "none"
    /\ ~loader.none
    /\ LET data == loader.data
           cells == data.rows * Cardinality(DOMAIN data.cols)
       IN loader_call' =
            IF data.kind = "None"
            THEN [NoLoaderCall EXCEPT !.op = "generate_quality_report",
                                      !.outcome = "ValueError"]
            ELSE IF cells = 0
            THEN [NoLoaderCall EXCEPT !.op = "generate_quality_report",
                                      !.outcome = "ZeroDivisionError"]
            ELSE [NoLoaderCall EXCEPT !.op = "generate_quality_report",
                                      !.outcome = "DataQualityReport",
                                      !.report = [total_rows |-> data.rows,
                                                  total_columns |-> Cardinality(DOMAIN data.cols),
                                                  missing |-> SumMissing(data, DOMAIN data.cols)]]
    /\ UNCHANGED <<data_config, loader, load_completed>>
    /\ UNCHANGED <<imputerVars, pipelineVars, apiVars>>

\* The caller takes the result of its loader call and goes on.
LoaderResume ==
    /\ loader_call.op # "none"
    /\ loader_call' = NoLoaderCall
    /\ UNCHANGED <<data_config, loader, load_completed>>
    /\ UNCHANGED <<imputerVars, pipelineVars, apiVars>>

\* No DataConfig and no loader have been built.
InitLoader ==
    /\ data_config = NoConfig
    /\ loader = NoLoader
    /\ loader_call = NoLoaderCall
    /\ load_completed = FALSE

(***************************************************************************)
(* DataSciencePipeline                                                     *)
(***************************************************************************)
\* Columns of the frames the pipeline loads, and the target_column arguments.
PipelineColumns == {"f1", "f2", "target"}
TargetArguments == {"target", "f1", "label"}

\* Model types callers ask for: the three of MLOpsModelTrainer.models and one other.
ModelTypes == {"random_forest", "gradient_boosting", "logistic_regression", "svm"}

RECURSIVE ListsUpTo(_)
ListsUpTo(n) ==
    IF n = 0 THEN {<<>>}
    ELSE ListsUpTo(n - 1)
         \cup {Append(l, m) : l \in {x \in ListsUpTo(n - 1) : Len(x) = n - 1}, m \in ModelTypes}

\* The models_to_train arguments: None, or a list of at most MaxModels names.
ModelsArguments ==
    {[none |-> TRUE, list |-> <<>>]} \cup {[none |-> FALSE, list |-> l] : l \in ListsUpTo(MaxModels)}

NoFields == [data_loader |-> 0, imputer |-> 0, feature_engineer |-> 0, trainer |-> 0]
NoRun == [target |-> "", columns |-> {}, X |-> {}, before |-> NoFields, events |-> <<>>,
          given_imputer |-> None, given_engineer |-> None]
NoResult == [op |-> "none", requested |-> [none |-> TRUE, list |-> <<>>], outcome |-> "ok",
             returned |-> FALSE, results |-> <<>>, trained |-> <<>>, trainer_assigned |-> FALSE]

\* The loop of train_models from position i on: configs[model_type] raises KeyError
\* for a name that is not one of its three keys; trainer.train_model raises at
\* position fail_at (0: never); else the pair of that training is stored.
RECURSIVE TrainLoop(_, _, _, _, _)
TrainLoop(list, i, fail_at, results, trained) ==
    IF i > Len(list) THEN [outcome |-> "ok", results |-> results, trained |-> trained]
    ELSE LET model_type == list[i]
         IN IF model_type \notin {"random_forest", "gradient_boosting", "logistic_regression"}
            THEN [outcome |-> "KeyError", results |-> results, trained |-> trained]
            ELSE IF i = fail_at
            THEN [outcome |-> "TrainError", results |-> results, trained |-> trained]
            ELSE TrainLoop(list, i + 1, fail_at,
                           Put(results, model_type, [model_type |-> model_type, training |-> i]),
                           Append(trained, model_type))

\* A train_models that skips a name it has no configuration for.
RECURSIVE TrainLoopSkipping(_, _, _, _, _)
TrainLoopSkipping(list, i, fail_at, results, trained) ==
    IF i > Len(list) THEN [outcome |-> "ok", results |-> results, trained |-> trained]
    ELSE LET model_type == list[i]
         IN IF model_type \notin {"random_forest", "gradient_boosting", "logistic_regression"}
            THEN TrainLoopSkipping(list, i + 1, fail_at, results, trained)
            ELSE IF i = fail_at
            THEN [outcome |-> "TrainError", results |-> results, trained |-> trained]
            ELSE TrainLoopSkipping(list, i + 1, fail_at,
                           Put(results, model_type, [model_type |-> model_type, training |-> i]),
                           Append(trained, model_type))

TrainModels_SkipsUnknown(models_to_train, split_ok, trainer_ok, fail_at) ==
    LET list == IF models_to_train.none
                THEN <<"random_forest", "gradient_boosting", "logistic_regression">>
                ELSE models_to_train.list
        r == TrainLoopSkipping(list, 1, fail_at, <<>>, <<>>)
    IN [op |-> "train_models", requested |-> models_to_train,
        outcome |-> IF ~split_ok THEN "SplitError" ELSE IF ~trainer_ok THEN "TrainerError"
                    ELSE r.outcome,
        returned |-> split_ok /\ trainer_ok /\ r.outcome = "ok",
        results |-> IF split_ok /\ trainer_ok /\ r.outcome = "ok" THEN r.results ELSE <<>>,
        trained |-> IF split_ok /\ trainer_ok THEN r.trained ELSE <<>>,
        trainer_assigned |-> split_ok /\ trainer_ok]

\* train_models(X, y, models_to_train): train_test_split, then
\* self.trainer = MLOpsModelTrainer(...), then the loop; each library call may raise.
\* `results` is returned only when the loop ends.
TrainModels(models_to_train, split_ok, trainer_ok, fail_at) ==
    LET list == IF models_to_train.none
                THEN <<"random_forest", "gradient_boosting", "logistic_regression">>
                ELSE models_to_train.list
        r == TrainLoop(list, 1, fail_at, <<>>, <<>>)
    IN [op |-> "train_models", requested |-> models_to_train,
        outcome |-> IF ~split_ok THEN "SplitError" ELSE IF ~trainer_ok THEN "TrainerError"
                    ELSE r.outcome,
        returned |-> split_ok /\ trainer_ok /\ r.outcome = "ok",
        results |-> IF split_ok /\ trainer_ok /\ r.outcome = "ok" THEN r.results ELSE <<>>,
        trained |-> IF split_ok /\ trainer_ok THEN r.trained ELSE <<>>,
        trainer_assigned |-> split_ok /\ trainer_ok]

\* A direct call of train_models on the pipeline.
TrainModelsCall(models_to_train, split_ok, trainer_ok, fail_at) ==
    /\ pc = "idle"
    /\ calls < MaxCalls
    /\ calls' = calls + 1
    /\ LET r == TrainModels(models_to_train, split_ok, trainer_ok, fail_at)
       IN /\ result' = r
          /\ fields' = IF r.trainer_assigned THEN [fields EXCEPT !.trainer = calls + 1]
                       ELSE fields
    /\ UNCHANGED <<pc, run>>
    /\ UNCHANGED <<imputerVars, loaderVars, apiVars>>

\* run_complete_pipeline(data_path, target_column) is entered.
RunCompletePipeline(target_column) ==
    /\ pc = "idle"
    /\ calls < MaxCalls
    /\ calls' = calls + 1
    /\ pc' = "load_data"
    /\ run' = [NoRun EXCEPT !.target = target_column, !.before = fields]
    /\ result' = NoResult
    /\ UNCHANGED fields
    /\ UNCHANGED <<imputerVars, loaderVars, apiVars>>

\* load_data(data_path): DataConfig(...) raises for a missing file; else
\* self.data_loader is assigned, and load_pandas or generate_quality_report may
\* raise; else the frame with the given columns is returned.
LoadData(outcome, columns) ==
    /\ pc = "load_data"
    /\ fields' = IF outcome = "DataConfigError" THEN fields
                 ELSE [fields EXCEPT !.data_loader = calls]
    /\ run' = [run EXCEPT !.events = Append(@, "load_data"),
                          !.columns = IF outcome = "ok" THEN columns ELSE {}]
    /\ pc' = IF outcome = "ok" THEN "drop_target" ELSE "raised"
    /\ result' = [NoResult EXCEPT !.op = "run_complete_pipeline", !.outcome = outcome]
    /\ UNCHANGED calls
    /\ UNCHANGED <<imputerVars, loaderVars, apiVars>>

\* A run that hands the whole frame on, target column included.
DropTarget_KeepsTarget ==
    /\ pc = "drop_target"
    /\ run' = [run EXCEPT !.events = Append(@, "drop_target"), !.X = run.columns]
    /\ pc' = IF run.target \in run.columns THEN "impute" ELSE "raised"
    /\ result' = [result EXCEPT !.outcome = IF run.target \in run.columns THEN "ok"
                                            ELSE "KeyError"]
    /\ UNCHANGED <<fields, calls>>
    /\ UNCHANGED <<imputerVars, loaderVars, apiVars>>

\* X = data.drop(columns=[target_column]); y = data[target_column]: KeyError when
\* the frame has no such column.
DropTarget ==
    /\ pc = "drop_target"
    /\ run' = [run EXCEPT !.events = Append(@, "drop_target"),
                          !.X = run.columns \ {run.target}]
    /\ pc' = IF run.target \in run.columns THEN "impute" ELSE "raised"
    /\ result' = [result EXCEPT !.outcome = IF run.target \in run.columns THEN "ok"
                                            ELSE "KeyError"]
    /\ UNCHANGED <<fields, calls>>
    /\ UNCHANGED <<imputerVars, loaderVars, apiVars>>

\* preprocess_data, first half: self.imputer is assigned, then
\* imputer.fit_transform(data) returns a frame with the columns of data or raises.
Impute(ok) ==
    /\ pc = "impute"
    /\ fields' = [fields EXCEPT !.imputer = calls]
    /\ run' = [run EXCEPT !.events = Append(@, "imputer.fit_transform"),
                          !.given_imputer = Some(run.X)]
    /\ pc' = IF ok THEN "engineer" ELSE "raised"
    /\ result' = [result EXCEPT !.outcome = IF ok THEN "ok" ELSE "ImputerError"]
    /\ UNCHANGED calls
    /\ UNCHANGED <<imputerVars, loaderVars, apiVars>>

\* preprocess_data, second half: self.feature_engineer is assigned, then
\* feature_engineer.fit_transform is given the imputer's frame.
Engineer(ok) ==
    /\ pc = "engineer"
    /\ fields' = [fields EXCEPT !.feature_engineer = calls]
    /\ run' = [run EXCEPT !.events = Append(@, "feature_engineer.fit_transform"),
                          !.given_engineer = Some(run.X)]
    /\ pc' = IF ok THEN "train" ELSE "raised"
    /\ result' = [result EXCEPT !.outcome = IF ok THEN "ok" ELSE "EngineerError"]
    /\ UNCHANGED calls
    /\ UNCHANGED <<imputerVars, loaderVars, apiVars>>

\* results = self.train_models(X_processed, y), with the default models_to_train.
Train(split_ok, trainer_ok, fail_at) ==
    /\ pc = "train"
    /\ LET r == TrainModels([none |-> TRUE, list |-> <<>>], split_ok, trainer_ok, fail_at)
       IN /\ result' = [r EXCEPT !.op = "run_complete_pipeline"]
          /\ fields' = IF r.trainer_assigned THEN [fields EXCEPT !.trainer = calls]
                       ELSE fields
          /\ pc' = IF r.returned THEN "done" ELSE "raised"
    /\ run' = [run EXCEPT !.events = Append(@, "train_models")]
    /\ UNCHANGED calls
    /\ UNCHANGED <<imputerVars, loaderVars, apiVars>>

\* run_complete_pipeline has returned or raised; the caller goes on.
RunReturn ==
    /\ pc \in {"done", "raised"}
    /\ pc' = "idle"
    /\ UNCHANGED <<fields, calls, run, result>>
    /\ UNCHANGED <<imputerVars, loaderVars, apiVars>>

(***************************************************************************)
(* The API the test suite calls (the application itself is not among the   *)
(* sources; it is modelled from what its tests expect).                    *)
(***************************************************************************)
Emails == {"test@example.com", "other@example.com"}
Passwords == {"testpassword123", "wrongpassword"}
UsernameOf(email) == IF email = "test@example.com" THEN "testuser" ELSE "otheruser"

\* Authentication headers of a request: none, or a bearer token, which is either
\* one that login issued for an email or not a token of the application.
Headers == {[present |-> FALSE, token |-> ""]}
           \cup {[present |-> TRUE, token |-> t] : t \in Emails \cup {"garbage"}}

NoResponse == [endpoint |-> "none", status |-> 0, detail |-> "", access_token |-> "",
               email |-> "", username |-> "",
               request |-> [email |-> "", password |-> "",
                            headers |-> [present |-> FALSE, token |-> ""]]]

\* UserService.create(email, username, password): a second user with the email of
\* a registered one is refused.
CreateUser(email, password) ==
    /\ email \notin DOMAIN users
    /\ users' = Put(users, email, [username |-> UsernameOf(email), password |-> password])
    /\ response' = [NoResponse EXCEPT !.endpoint = "UserService.create", !.status = 200,
                                      !.email = email, !.username = UsernameOf(email)]
    /\ UNCHANGED tokens
    /\ UNCHANGED <<imputerVars, loaderVars, pipelineVars>>

\* A login that does not compare the password.
Login_AnyPassword(email, password) ==
    /\ LET ok == email \in DOMAIN users
       IN /\ response' = [NoResponse EXCEPT
                            !.endpoint = "POST /api/v1/auth/login",
                            !.status = IF ok THEN 200 ELSE 401,
                            !.detail = IF ok THEN "" ELSE "Incorrect email or password",
                            !.access_token = IF ok THEN email ELSE "",
                            !.request = [email |-> email, password |-> password,
                                         headers |-> [present |-> FALSE, token |-> ""]]]
          /\ tokens' = IF ok THEN tokens \cup {email} ELSE tokens
    /\ UNCHANGED users
    /\ UNCHANGED <<imputerVars, loaderVars, pipelineVars>>

\* POST /api/v1/auth/login: 200 with a bearer access_token for the credentials of a
\* registered user, else 401 'Incorrect email or password'.
Login(email, password) ==
    /\ LET ok == email \in DOMAIN users /\ users[email].password = password
       IN /\ response' = [NoResponse EXCEPT
                            !.endpoint = "POST /api/v1/auth/login",
                            !.status = IF ok THEN 200 ELSE 401,
                            !.detail = IF ok THEN "" ELSE "Incorrect email or password",
                            !.access_token = IF ok THEN email ELSE "",
                            !.request = [email |-> email, password |-> password,
                                         headers |-> [present |-> FALSE, token |-> ""]]]
          /\ tokens' = IF ok THEN tokens \cup {email} ELSE tokens
    /\ UNCHANGED users
    /\ UNCHANGED <<imputerVars, loaderVars, pipelineVars>>

\* GET /api/v1/users/me: 200 with the user of the token for a request whose headers
\* carry an issued token, else 401.
GetCurrentUser(headers) ==
    /\ LET ok == headers.present /\ headers.token \in tokens
       IN response' = [NoResponse EXCEPT
                         !.endpoint = "GET /api/v1/users/me",
                         !.status = IF ok THEN 200 ELSE 401,
                         !.detail = IF ok THEN "" ELSE "Not authenticated",
                         !.email = IF ok THEN headers.token ELSE "",
                         !.username = IF ok THEN users[headers.token].username ELSE "",
                         !.request = [email |-> "", password |-> "", headers |-> headers]]
    /\ UNCHANGED <<users, tokens>>
    /\ UNCHANGED <<imputerVars, loaderVars, pipelineVars>>

\* GET /health.
HealthCheck ==
    /\ response' = [NoResponse EXCEPT !.endpoint = "GET /health", !.status = 200,
                                      !.detail = "healthy"]
    /\ UNCHANGED <<users, tokens>>
    /\ UNCHANGED <<imputerVars, loaderVars, pipelineVars>>

(***************************************************************************)
(* Specifications: one per component, the other components left as built.  *)
(***************************************************************************)
ImputerBuilt ==
    /\ is_fitted_ = FALSE
    /\ feature_names_ = None
    /\ imputers_ = <<>>
    /\ strategies_ = <<>>
    /\ call = NoCall
    /\ fit_completed = FALSE
    /\ recorded = None

PipelineBuilt ==
    /\ fields = NoFields
    /\ calls = 0
    /\ pc = "idle"
    /\ run = NoRun
    /\ result = NoResult

ApiStarted ==
    /\ users = <<>>
    /\ tokens = {}
    /\ response = NoResponse

\* SmartMissingValueImputer(strategy=...) has been built.
InitImputer ==
    /\ strategy \in Strategies
    /\ ImputerBuilt
    /\ InitLoader
    /\ PipelineBuilt
    /\ ApiStarted

NextImputer ==
    \/ \E X \in Inputs : \E order \in Orders(ColumnsOf(X)) : Fit(X, order)
    \/ \E X \in Inputs : Transform(X)
    \/ Resume

SpecImputer == InitImputer /\ [][NextImputer]_vars

\* No DataConfig and no loader have been built.
InitLoaderSpec ==
    /\ strategy = "auto"
    /\ ImputerBuilt
    /\ InitLoader
    /\ PipelineBuilt
    /\ ApiStarted

NextLoader ==
    \/ \E file_exists \in BOOLEAN, file_type \in FileTypeInputs :
          DataConfigInit(file_exists, file_type)
    \/ ModernDataLoaderInit
    \/ \E read \in ReadResults : LoadPandas(read)
    \/ \E read_ok \in BOOLEAN : LoadPolars(read_ok)
    \/ GenerateQualityReport
    \/ LoaderResume

SpecLoader == InitLoaderSpec /\ [][NextLoader]_vars

\* DataSciencePipeline() has been built.
InitPipeline ==
    /\ strategy = "auto"
    /\ ImputerBuilt
    /\ InitLoader
    /\ PipelineBuilt
    /\ ApiStarted

NextPipeline ==
    \/ \E t \in TargetArguments : RunCompletePipeline(t)
    \/ \E o \in {"DataConfigError", "LoadError", "ReportError", "ok"},
          columns \in SUBSET PipelineColumns : LoadData(o, columns)
    \/ DropTarget
    \/ \E ok \in BOOLEAN : Impute(ok)
    \/ \E ok \in BOOLEAN : Engineer(ok)
    \/ \E split_ok, trainer_ok \in BOOLEAN, fail_at \in 0..3 :
          Train(split_ok, trainer_ok, fail_at)
    \/ RunReturn
    \/ \E m \in ModelsArguments, split_ok, trainer_ok \in BOOLEAN, fail_at \in 0..MaxModels :
          TrainModelsCall(m, split_ok, trainer_ok, fail_at)

SpecPipeline == InitPipeline /\ [][NextPipeline]_vars

\* The application runs with no user registered.
InitApi ==
    /\ strategy = "auto"
    /\ ImputerBuilt
    /\ InitLoader
    /\ PipelineBuilt
    /\ ApiStarted

NextApi ==
    \/ \E e \in Emails, p \in Passwords : CreateUser(e, p)
    \/ \E e \in Emails, p \in Passwords : Login(e, p)
    \/ \E h \in Headers : GetCurrentUser(h)
    \/ HealthCheck

SpecApi == InitApi /\ [][NextApi]_vars

\* Minimum and maximum of an int64 column as a reader can hand it to
\* _optimize_dtypes: every pair min <= max of the values next to the limits of the
\* tested types and of int64 itself.
IntBoundaryValues ==
    {Int64Min, <<-1, 16777087, 16777215>>, Int32Min, <<-1, 16777088, 1>>,
     I64(-32769), Int16Min, I64(-32767), I64(-129), Int8Min, I64(-127), I64(-1),
     I64(0), I64(126), Int8Max, I64(128), I64(254), UInt8Max, I64(256),
     I64(32766), Int16Max, I64(32768), I64(65534), UInt16Max, I64(65536),
     <<0, 127, 16777214>>, Int32Max, <<0, 128, 0>>,
     <<0, 255, 16777214>>, UInt32Max, <<0, 256, 0>>, Int64Max}

IntBoundaryRanges ==
    {r \in IntBoundaryValues \X IntBoundaryValues : LessEq(r[1], r[2])}

\* load_pandas() on a loader of a csv file has stored the frame it read, one int64
\* column, in self._data and is about to call _optimize_dtypes.
InitOptimizeDtypes ==
    /\ strategy = "auto"
    /\ ImputerBuilt
    /\ PipelineBuilt
    /\ ApiStarted
    /\ data_config = [none |-> FALSE, file_type |-> "csv"]
    /\ loader_call = NoLoaderCall
    /\ load_completed = FALSE
    /\ \E r \in IntBoundaryRanges :
          loader = [none |-> FALSE, config |-> data_config, polars_data |-> "None",
                    data |-> [kind |-> "DataFrame", rows |-> NumRows,
                              cols |-> [c \in {"a"} |->
                                          [dtype |-> "int64", nmiss |-> 0, range |-> r]]]]

\* The rest of that load_pandas() call: _optimize_dtypes() converts self._data in
\* place and the frame is returned.
OptimizeDtypesStep ==
    /\ loader_call.op = "none"
    /\ ~load_completed
    /\ loader.data.kind = "DataFrame"
    /\ LET r == OptimizeDtypes([raises |-> FALSE, frame |-> loader.data,
                                downcast |-> {}, nunique |-> <<>>])
       IN /\ loader' = [loader EXCEPT !.data = r.frame]
          /\ load_completed' = ~r.raises
          /\ loader_call' = [NoLoaderCall EXCEPT !.op = "load_pandas",
                                !.outcome = IF r.raises THEN "ZeroDivisionError"
                                            ELSE "ok",
                                !.read = loader.data]
    /\ UNCHANGED data_config
    /\ UNCHANGED <<imputerVars, pipelineVars, apiVars>>

NextOptimizeDtypes ==
    \/ OptimizeDtypesStep
    \/ GenerateQualityReport
    \/ LoaderResume

SpecOptimizeDtypes == InitOptimizeDtypes /\ [][NextOptimizeDtypes]_vars

(***************************************************************************)
(* Claims about the transformers.                                          *)
(***************************************************************************)
\* The columns of a frame that hold at least one missing cell.
MissingColumns(X) == {c \in ColumnsOf(X) : X.cols[c].nmiss > 0}

\* C1: transform on an instance on which no fit call has completed raises
\* ValueError('Transformer not fitted. Call fit() first.') whatever the input, and
\* leaves is_fitted_ and feature_names_ as constructed; once a fit call has
\* completed, is_fitted_ is True in every later state.
C1_UnfittedTransformRaises ==
    /\ (call.op = "transform" /\ ~fit_completed) =>
          /\ call.outcome = "NotFitted"
          /\ is_fitted_ = FALSE
          /\ feature_names_ = None
    /\ fit_completed => is_fitted_

C8_KeysAreLatestMissing ==
    (call.op = "fit" /\ call.outcome = "ok") =>
        /\ DOMAIN imputers_ = MissingColumns(call.X)
        /\ DOMAIN strategies_ = MissingColumns(call.X)

\* The strategy the claim assigns to a column of the given dtype with nmiss missing
\* cells out of rows, under the configured strategy.
C9_Expected(configured, dtype, nmiss, rows) ==
    CASE configured # "auto" -> configured
      [] configured = "auto" /\ dtype \in {"object", "category"} -> "most_frequent"
      [] configured = "auto" /\ dtype \notin {"object", "category"}
           /\ 10 * nmiss < rows /\ dtype \in {"float64", "int64"} -> "mean"
      [] configured = "auto" /\ dtype \notin {"object", "category"}
           /\ 10 * nmiss < rows /\ dtype \notin {"float64", "int64"} -> "most_frequent"
      [] configured = "auto" /\ dtype \notin {"object", "category"}
           /\ 10 * nmiss >= rows -> "knn"

\* C9: a fit call that returns leaves, for every column of its frame with a missing
\* value, the strategy of the decision order (dtype object/category, then missing
\* ratio below 0.1 with float64/int64 or another dtype, then knn; the configured
\* strategy when it is not 'auto'), and assigns no strategy to the other columns:
\* their entry of strategies_ is what it was before the call.
C9_StrategyDecision ==
    [][(call.op = "none" /\ call'.op = "fit" /\ call'.outcome = "ok") =>
          \A c \in Columns :
             IF c \in MissingColumns(call'.X)
             THEN /\ c \in DOMAIN strategies_'
                  /\ strategies_'[c] = C9_Expected(strategy, call'.X.cols[c].dtype,
                                                   call'.X.cols[c].nmiss, call'.X.rows)
             ELSE /\ (c \in DOMAIN strategies_') = (c \in DOMAIN strategies_)
                  /\ c \in DOMAIN strategies_ => strategies_'[c] = strategies_[c]]_vars

\* A fit under 'auto' has returned on a frame whose columns took 'mean' (float64,
\* low ratio) and 'knn' (high ratio).
C9_Witness ==
    /\ strategy = "auto"
    /\ call.op = "fit" /\ call.outcome = "ok"
    /\ \E c, d \in MissingColumns(call.X) :
          /\ strategies_[c] = "mean"
          /\ strategies_[d] = "knn"

\* C10: a transform that returns gives a frame with the columns and the row count
\* of its argument, in which every column without an entry in imputers_ is as in the
\* argument.  (The argument itself is a value here: _transform_impl works on
\* X.copy().)
C10_OnlyImputedColumnsChange ==
    (call.op = "transform" /\ call.outcome = "ok") =>
        /\ ColumnsOf(call.out) = ColumnsOf(call.X)
        /\ call.out.rows = call.X.rows
        /\ \A c \in ColumnsOf(call.X) :
              c \notin DOMAIN imputers_ => call.out.cols[c] = call.X.cols[c]

(***************************************************************************)
(* Claims about DataConfig and ModernDataLoader.                           *)
(***************************************************************************)
\* C3: generate_quality_report raises ValueError('Data not loaded. ...') in every
\* state in which no load_pandas call has completed on the loader, whatever
\* load_polars calls were made; after a load_pandas call has completed it returns a
\* DataQualityReport.
C3_ReportNeedsLoadPandas ==
    loader_call.op = "generate_quality_report" =>
        IF load_completed THEN loader_call.outcome = "DataQualityReport"
        ELSE loader_call.outcome = "ValueError"

\* C4: DataConfig rejects a file_type with a ValueError of validate_file_type
\* exactly when it is not one of 'csv', 'json', 'parquet', 'excel'; a DataConfig that
\* was built, and the config of every ModernDataLoader, holds one of the four.
C4_FileTypeAllowed ==
    /\ loader_call.op = "DataConfig" =>
          /\ "file_type" \in loader_call.errors
                <=> loader_call.file_type \notin {"csv", "json", "parquet", "excel"}
          /\ "file_type" \in loader_call.errors => loader_call.outcome = "ValueError"
    /\ ~data_config.none => data_config.file_type \in {"csv", "json", "parquet", "excel"}
    /\ ~loader.none => loader.config.file_type \in {"csv", "json", "parquet", "excel"}

\* A loader was built after 'CSV' had been refused for a file that exists.
C4_Witness ==
    /\ ~loader.none
    /\ loader_call.op = "DataConfig"
    /\ loader_call.file_type = "CSV"
    /\ loader_call.errors = {"file_type"}

\* The integer types _optimize_dtypes converts to, and whether a type's range
\* contains a column's minimum and maximum.
C11_TestedTypes == {"uint8", "uint16", "uint32", "int8", "int16", "int32"}
C11_Fits(dtype, col_min, col_max) ==
    LessEq(IntTypeMin(dtype), col_min) /\ LessEq(col_max, IntTypeMax(dtype))

\* C11: when load_pandas has run _optimize_dtypes on the frame it read, every int64
\* column of that frame has int64 or one of the tested integer types, the range of
\* its type contains the column's minimum and maximum as read, the minimum and the
\* maximum are the same numbers after the conversion (nothing wrapped around), and
\* a column whose minimum and maximum fit none of the tested types is still int64.
C11_IntConversionKeepsValues ==
    (loader_call.op = "load_pandas" /\ loader_call.read.kind = "DataFrame") =>
        \A c \in DOMAIN loader_call.read.cols :
            (loader_call.read.cols[c].dtype = "int64" /\ loader_call.read.rows > 0) =>
                LET col_min == loader_call.read.cols[c].range[1]
                    col_max == loader_call.read.cols[c].range[2]
                    after == loader.data.cols[c]
                IN /\ after.dtype \in C11_TestedTypes \cup {"int64"}
                   /\ C11_Fits(after.dtype, col_min, col_max)
                   /\ after.range = <<col_min, col_max>>
                   /\ (\A t \in C11_TestedTypes : ~C11_Fits(t, col_min, col_max))
                         => after.dtype = "int64"

\* A column with minimum -129 and maximum 126 was converted to int16, and its
\* minimum and maximum are what they were.
C11_Witness ==
    /\ loader_call.op = "load_pandas"
    /\ loader_call.outcome = "ok"
    /\ loader_call.read.kind = "DataFrame"
    /\ "a" \in DOMAIN loader_call.read.cols
    /\ loader_call.read.cols["a"].dtype = "int64"
    /\ loader_call.read.cols["a"].range = <<I64(-129), I64(126)>>
    /\ loader.data.cols["a"].dtype = "int16"
    /\ loader.data.cols["a"].range = <<I64(-129), I64(126)>>

(***************************************************************************)
(* Claims about DataSciencePipeline.                                       *)
(***************************************************************************)
IsPrefix(s, t) == Len(s) <= Len(t) /\ \A i \in 1..Len(s) : s[i] = t[i]

\* C5: a run of run_complete_pipeline enters its stages in the order load_data,
\* removal of the target column, imputer fit_transform, feature-engineer
\* fit_transform, train_models; the frames given to the imputer and to the feature
\* engineer do not hold the target column; data_loader, imputer, feature_engineer,
\* trainer are assigned in that order; and the field of a stage the run has not
\* entered (so of every stage after one that raised) is what it was before the call.
C5_PipelineOrder ==
    pc # "idle" =>
        LET order == <<"load_data", "drop_target", "imputer.fit_transform",
                       "feature_engineer.fit_transform", "train_models">>
            stage == [data_loader |-> 1, imputer |-> 3, feature_engineer |-> 4,
                      trainer |-> 5]
        IN /\ IsPrefix(run.events, order)
           /\ ~run.given_imputer.none => run.target \notin run.given_imputer.names
           /\ ~run.given_engineer.none => run.target \notin run.given_engineer.names
           /\ \A f \in DOMAIN fields :
                 stage[f] > Len(run.events) => fields[f] = run.before[f]
           /\ \A f, g \in DOMAIN fields :
                 (stage[f] < stage[g] /\ fields[g] # run.before[g])
                    => fields[f] # run.before[f]

\* The feature engineer raised in a second call: imputer and feature_engineer are
\* those of this call, trainer is still the one an earlier call assigned.
C5_Witness ==
    /\ pc = "raised"
    /\ Len(run.events) = 4
    /\ fields.imputer = calls /\ fields.feature_engineer = calls
    /\ run.before.trainer # 0
    /\ fields.trainer = run.before.trainer
    /\ ~run.given_engineer.none /\ run.given_engineer.names # {}

\* C6: train_models trains the requested names one at a time in list order (the
\* three default names for None); when it returns, the keys of its dictionary are
\* exactly the requested names, each mapped to the pair of its own (latest)
\* training; when a requested name is none of the three, nothing is returned, and
\* unless a library call raised before, the exception is the KeyError raised at
\* that name, after the names before it were trained.
C6_TrainModelsResult ==
    result.op = "train_models" =>
        LET list == IF result.requested.none
                    THEN <<"random_forest", "gradient_boosting", "logistic_regression">>
                    ELSE result.requested.list
            known == {"random_forest", "gradient_boosting", "logistic_regression"}
            unknown == {i \in 1..Len(list) : list[i] \notin known}
        IN /\ IsPrefix(result.trained, list)
           /\ result.returned =>
                 /\ DOMAIN result.results = {list[i] : i \in 1..Len(list)}
                 /\ result.trained = list
                 /\ \A n \in DOMAIN result.results :
                       /\ result.results[n].model_type = n
                       /\ list[result.results[n].training] = n
                       /\ \A j \in 1..Len(list) :
                             j > result.results[n].training => list[j] # n
           /\ unknown # {} =>
                 /\ ~result.returned
                 /\ result.results = <<>>
                 /\ result.outcome \notin {"SplitError", "TrainerError", "TrainError"} =>
                       /\ result.outcome = "KeyError"
                       /\ \E i \in unknown :
                             /\ \A j \in unknown : i <= j
                             /\ Len(result.trained) = i - 1

\* A name outside the three came second: the first model was trained, KeyError was
\* raised, and no dictionary came back.
C6_Witness ==
    /\ result.op = "train_models"
    /\ result.outcome = "KeyError"
    /\ Len(result.trained) = 1
    /\ ~result.returned

(***************************************************************************)
(* Claims about the API.                                                   *)
(***************************************************************************)
\* C7: GET /api/v1/users/me answers 401 to every request without authentication
\* headers and 200, with the email and username of the authenticated user, exactly
\* to the requests that carry a token login issued; POST /api/v1/auth/login with a
\* wrong password for a registered user answers 401 'Incorrect email or password'
\* and gives no access_token.
C7_ProtectedEndpoint ==
    /\ response.endpoint = "GET /api/v1/users/me" =>
          /\ ~response.request.headers.present => response.status = 401
          /\ response.status \in {200, 401}
          /\ response.status = 200 <=>
                (response.request.headers.present
                 /\ response.request.headers.token \in tokens)
          /\ response.status = 200 =>
                /\ response.email = response.request.headers.token
                /\ response.email \in DOMAIN users
                /\ response.username = users[response.email].username
    /\ (/\ response.endpoint = "POST /api/v1/auth/login"
        /\ response.request.email \in DOMAIN users
        /\ users[response.request.email].password # response.request.password) =>
          /\ response.status = 401
          /\ response.detail = "Incorrect email or password"
          /\ response.access_token = ""

\* A login with the wrong password of a registered user was refused while a token
\* of that user was already out.
C7_Witness ==
    /\ response.endpoint = "POST /api/v1/auth/login"
    /\ response.status = 401
    /\ response.request.email \in DOMAIN users
    /\ response.request.email \in tokens

====
